---------------------------- MODULE Spec2Model ----------------------------
(***************************************************************************)
(* A model of the Hand interpreter (rust-interpreter/src/main.rs):         *)
(* calc_wormholes, the loop resolver, followed by the execution loop of    *)
(* run_hand_ast.  Offsets are 0-based as in the source; a TLA+ sequence is *)
(* 1-based, so the instruction at offset i is instructions[i + 1].         *)
(*                                                                         *)
(* usize values.  flow_offset, offset and the keys of the maps only grow   *)
(* from 0 and stay far below the word size.  cursor is the one usize that  *)
(* can pass below 0: it is held as the representative of its value modulo  *)
(* 2^w nearest to 0, so a negative cursor -k stands for the usize 2^w - k, *)
(* which no Vec index reaches (buffer.get gives None).                     *)
(*                                                                         *)
(* The writer is the in-memory sink of the tests (lines 140-141): write    *)
(* takes the whole one-byte slice and does not fail.                       *)
(***************************************************************************)
EXTENDS Integers, Sequences, FiniteSets

VARIABLES
    instructions,     \* run_hand_ast: instructions (line 37)
    overflow_checks,  \* the build: TRUE panics on usize overflow, FALSE wraps
    pc,               \* "parse" | "parse_panic" | "resolve" | "run" | "done" | "panic"
    offset,           \* calc_wormholes: offset (line 94)
    stack,            \* calc_wormholes: stack, the instructions not yet scanned (line 95)
    map,              \* calc_wormholes: map (line 96)
    starts,           \* calc_wormholes: starts (line 97)
    buffer,           \* run_hand_ast: buffer, the tape (line 39)
    cursor,           \* run_hand_ast: cursor (line 40)
    flow_offset,      \* run_hand_ast: flow_offset (line 41)
    wormholes_map,    \* run_hand_ast: wormholes_map (line 42)
    writer,           \* run_hand_ast: the bytes written to writer so far
    code,             \* the program text given to parse_hand_code (lines 30, 138, 154)
    input,            \* parse_hand_code: the position in code the combinators have come to
    acc,              \* many0: the instructions gathered so far (line 132)
    underflowed,      \* history: a Previous has been executed with cursor = 0
    max_cursor        \* history: the largest value cursor has had

vars == <<instructions, overflow_checks, pc, offset, stack, map, starts,
          buffer, cursor, flow_offset, wormholes_map, writer,
          code, input, acc, underflowed, max_cursor>>

\* The history variables, which no step of the code reads.
history_vars == <<underflowed, max_cursor>>

parser_vars == <<code, input, acc>>
resolver_vars == <<offset, stack, map, starts>>
engine_vars == <<buffer, cursor, flow_offset, writer>>

---------------------------------------------------------------------------
(* Bounds of the model. *)

\* Longest program over the full instruction set.
MaxLen == 4
\* Longest program made of loop markers only (deep nesting, many pairs).
MaxMarkers == 6
\* The tape is not allowed to grow beyond this many cells.
MaxTape == 5
\* The writer is not allowed to receive more than this many bytes.
MaxOut == 4

---------------------------------------------------------------------------
(* enum Instruction, lines 13-22 *)

Next == "Next"
Previous == "Previous"
Increment == "Increment"
Decrease == "Decrease"
LoopStart == "LoopStart"
LoopEnd == "LoopEnd"
\* Print (the name is taken by a TLA+ standard module)
PrintIns == "Print"

Instruction == {Next, Previous, Increment, Decrease, LoopStart, LoopEnd, PrintIns}

\* All sequences over S of length at most n.
SeqsUpTo(S, n) == UNION {[1..k -> S] : k \in 0..n}

\* The programs the model runs.
Programs == SeqsUpTo(Instruction, MaxLen) \cup SeqsUpTo({LoopStart, LoopEnd}, MaxMarkers)

---------------------------------------------------------------------------
(* Helpers: Vec, HashMap and u8 operations used by the code. *)

\* u8 cells wrap at this modulus.
U8Modulus == 256

\* HashMap::new()
EmptyMap == [k \in {} |-> 0]

\* HashMap::insert(k, v): adds the entry, replacing any entry for k.
MapInsert(m, k, v) == [x \in (DOMAIN m) \cup {k} |-> IF x = k THEN v ELSE m[x]]

\* Vec::get(i).is_some() for a usize i (see the note on cursor above).
HasCell(buf, i) == 0 <= i /\ i < Len(buf)

\* *buf.get(i).unwrap()
Cell(buf, i) == buf[i + 1]

\* A slip: the addition saturates at u8::MAX.
overflowing_add_Saturating(v) == IF v = U8Modulus - 1 THEN v ELSE v + 1

\* u8::overflowing_add(1).0
overflowing_add(v) == (v + 1) % U8Modulus

\* A slip: the subtraction saturates at 0.
overflowing_sub_Saturating(v) == IF v = 0 THEN v ELSE v - 1

\* u8::overflowing_sub(1).0
overflowing_sub(v) == (v + U8Modulus - 1) % U8Modulus

\* A slip: the loop stops one instruction short.
HasIns_StopsShort == flow_offset + 1 < Len(instructions)

\* instructions.get(flow_offset).is_some()
HasIns == flow_offset < Len(instructions)

\* *instructions.get(flow_offset).unwrap()
Ins == instructions[flow_offset + 1]

\* A slip: a lookup that misses yields the offset looked up.
WormholeOrDefault_Self(m, k) == IF k \in DOMAIN m THEN m[k] ELSE k

\* *wormholes_map.get(&flow_offset).unwrap_or(&0usize)
WormholeOrDefault(m, k) == IF k \in DOMAIN m THEN m[k] ELSE 0

---------------------------------------------------------------------------
(* parse_hand_code, lines 118-134.  A text is a sequence of chars, a char  *)
(* its Unicode scalar value.                                               *)

\* The chars of lines 122-128.
CharNext == 128073
CharPrevious == 128072
CharIncrement == 128070
CharDecrease == 128071
CharLoopStart == 129308
CharLoopEnd == 129307
CharPrint == 128074

\* The chars nom's multispace0 takes: tab, line feed, carriage return, space.
Multispace == {9, 10, 13, 32}

\* The alternatives of ins_alter in their order (lines 129-131).
InsTable ==
    << <<CharNext, Next>>, <<CharPrevious, Previous>>, <<CharIncrement, Increment>>,
       <<CharDecrease, Decrease>>, <<CharLoopStart, LoopStart>>, <<CharLoopEnd, LoopEnd>>,
       <<CharPrint, PrintIns>> >>

\* A slip: only spaces and tabs are skipped (space0 for multispace0).
RECURSIVE multispace0_SpacesOnly(_, _)
multispace0_SpacesOnly(s, i) ==
    IF i <= Len(s) /\ s[i] \in {9, 32} THEN multispace0_SpacesOnly(s, i + 1) ELSE i

\* multispace0 from position i of s: the position of the first char it
\* does not take (Len(s) + 1 at the end of the text).  It never fails.
RECURSIVE multispace0(_, _)
multispace0(s, i) ==
    IF i <= Len(s) /\ s[i] \in Multispace THEN multispace0(s, i + 1) ELSE i

\* keychar(c) = preceded(multispace0, char(c)) (line 120): the position
\* after c, or 0 for Err.
keychar(s, i, c) ==
    LET j == multispace0(s, i)
    IN  IF j <= Len(s) /\ s[j] = c THEN j + 1 ELSE 0

\* alt over the seven ins(c, v) (lines 121-131): the first that succeeds.
ins_alter(s, i) ==
    LET hits == {k \in 1 .. Len(InsTable) : keychar(s, i, InsTable[k][1]) /= 0}
    IN  IF hits = {}
        THEN [ok |-> FALSE, next |-> i, value |-> Next]
        ELSE LET k == CHOOSE x \in hits : \A y \in hits : x <= y
             IN  [ok |-> TRUE, next |-> keychar(s, i, InsTable[k][1]), value |-> InsTable[k][2]]

\* The value of code in a run that starts from an instruction vector.
NoCode == <<0>>

\* The text of test_hello (line 139).
HelloCode ==
    <<128071, 129308, 128071, 128071, 128071, 128071, 128071, 128071, 128071, 128073,
      128070, 128072, 129307, 128073, 128071, 128074, 128071, 129308, 128071, 128073,
      128070, 128070, 128070, 128070, 128070, 128072, 129307, 128073, 128070, 128070,
      128074, 128070, 128070, 128070, 128070, 128070, 128070, 128070, 128074, 128074,
      128070, 128070, 128070, 128074>>

\* The text of test_hello_world (line 155).
HelloWorldCode ==
    <<128073, 128070, 128070, 128070, 128070, 128070, 128070, 128070, 128070, 129308,
      128071, 128072, 128070, 128070, 128070, 128070, 128070, 128070, 128070, 128070,
      128070, 128073, 129307, 128072, 128074, 128073, 128073, 128070, 128073, 128071,
      129308, 128070, 129307, 128070, 128070, 128073, 128070, 128070, 128073, 128070,
      128070, 128070, 129308, 128073, 129308, 128071, 128073, 128070, 128070, 128070,
      128072, 128072, 128070, 128070, 128070, 128073, 129307, 128072, 128072, 129307,
      128073, 128071, 128071, 128071, 128071, 128071, 128074, 128073, 128071, 128073,
      128070, 128070, 128070, 128074, 128074, 128070, 128070, 128070, 128074, 128073,
      128071, 128074, 128072, 128072, 128070, 129308, 128073, 129308, 128070, 128073,
      128070, 129307, 128073, 128073, 129307, 128072, 128071, 128071, 128071, 128071,
      128071, 128071, 128071, 128071, 128071, 128071, 128071, 128071, 128071, 128071,
      128074, 128073, 128073, 128074, 128070, 128070, 128070, 128074, 128071, 128071,
      128071, 128071, 128071, 128071, 128074, 128071, 128071, 128071, 128071, 128071,
      128071, 128071, 128071, 128074, 128073, 128070, 128074, 128073, 128070, 128074>>

FixtureCodes == {HelloCode, HelloWorldCode}

\* The fixture runs end by themselves: the caps of the model are not
\* applied to them.
Uncapped == code \in FixtureCodes

---------------------------------------------------------------------------
(* Initial state: run_hand_ast has set up its locals (lines 39-41) and has *)
(* entered calc_wormholes (lines 94-97).                                   *)

\* The locals of run_hand_ast and calc_wormholes, and the history.
InitEngine ==
    /\ overflow_checks \in BOOLEAN
    /\ offset = 0
    /\ map = EmptyMap
    /\ starts = <<>>
    /\ buffer = <<0>>
    /\ cursor = 0
    /\ flow_offset = 0
    /\ wormholes_map = EmptyMap
    /\ writer = <<>>
    /\ underflowed = FALSE
    /\ max_cursor = 0
    /\ input = 1
    /\ acc = <<>>

\* run_hand_ast is called with an instruction vector (it is pub): no text.
InitLocals ==
    /\ InitEngine
    /\ code = NoCode
    /\ pc = "resolve"
    /\ stack = instructions

Init ==
    /\ instructions \in Programs
    /\ InitLocals

---------------------------------------------------------------------------
(* calc_wormholes, lines 93-116: one action per match arm of the scan.     *)

\* lines 101-103 and 112
ScanLoopStart ==
    /\ pc = "resolve"
    /\ stack /= <<>>
    /\ Head(stack) = LoopStart
    /\ starts' = Append(starts, offset)
    /\ offset' = offset + 1
    /\ stack' = Tail(stack)
    /\ UNCHANGED <<parser_vars, instructions, overflow_checks, pc, map, engine_vars, wormholes_map>>
    /\ UNCHANGED history_vars

\* A slip: only the entry from the LoopEnd back to its LoopStart is recorded.
InsertPair_BackOnly(m, start, end) == MapInsert(m, end, start)

\* A slip: only the forward entry is recorded.
InsertPair_ForwardOnly(m, start, end) == MapInsert(m, start, end)

\* The two inserts of lines 106-107.
InsertPair(m, start, end) == MapInsert(MapInsert(m, start, end), end, start)

\* A slip: the pending starts are used as a queue, oldest first.
PendingStart_Oldest(st) == st[1]

\* The value Vec::pop gives on line 105: the most recent pending start.
PendingStart(st) == st[Len(st)]

\* What Vec::pop leaves in starts.
Popped(st) == SubSeq(st, 1, Len(st) - 1)

\* lines 104-109 and 112
ScanLoopEnd ==
    /\ pc = "resolve"
    /\ stack /= <<>>
    /\ Head(stack) = LoopEnd
    /\ IF starts /= <<>>
       THEN /\ map' = InsertPair(map, PendingStart(starts), offset)
            /\ starts' = Popped(starts)
       ELSE UNCHANGED <<map, starts>>
    /\ offset' = offset + 1
    /\ stack' = Tail(stack)
    /\ UNCHANGED <<parser_vars, instructions, overflow_checks, pc, engine_vars, wormholes_map>>
    /\ UNCHANGED history_vars

\* lines 110 and 112
ScanOther ==
    /\ pc = "resolve"
    /\ stack /= <<>>
    /\ Head(stack) \notin {LoopStart, LoopEnd}
    /\ offset' = offset + 1
    /\ stack' = Tail(stack)
    /\ UNCHANGED <<parser_vars, instructions, overflow_checks, pc, map, starts, engine_vars, wormholes_map>>
    /\ UNCHANGED history_vars

\* pop_front gives None (line 99): the map is returned (line 115) and bound
\* to wormholes_map (line 42).
ScanReturn ==
    /\ pc = "resolve"
    /\ stack = <<>>
    /\ wormholes_map' = map
    /\ pc' = "run"
    /\ UNCHANGED <<parser_vars, instructions, overflow_checks, resolver_vars, engine_vars>>
    /\ UNCHANGED history_vars

---------------------------------------------------------------------------
(* run_hand_ast, lines 44-90: one action per match arm, each with the      *)
(* flow_offset += 1 of line 87.                                            *)

Running == pc = "run" /\ HasIns

\* A slip: Next pushes a zero cell whether or not the tape has the cell.
StepNext_AlwaysPush ==
    /\ Running
    /\ Ins = Next
    /\ Len(buffer) < MaxTape \/ Uncapped
    /\ cursor' = cursor + 1
    /\ buffer' = Append(buffer, 0)
    /\ flow_offset' = flow_offset + 1
    /\ UNCHANGED <<parser_vars, instructions, overflow_checks, pc, resolver_vars, wormholes_map, writer>>
    /\ max_cursor' = IF cursor + 1 > max_cursor THEN cursor + 1 ELSE max_cursor
    /\ UNCHANGED underflowed

\* lines 46-51
StepNext ==
    /\ Running
    /\ Ins = Next
    /\ HasCell(buffer, cursor + 1) \/ Len(buffer) < MaxTape \/ Uncapped
    /\ cursor' = cursor + 1
    /\ buffer' = IF HasCell(buffer, cursor + 1) THEN buffer ELSE Append(buffer, 0)
    /\ flow_offset' = flow_offset + 1
    /\ UNCHANGED <<parser_vars, instructions, overflow_checks, pc, resolver_vars, wormholes_map, writer>>
    /\ max_cursor' = IF cursor + 1 > max_cursor THEN cursor + 1 ELSE max_cursor
    /\ UNCHANGED underflowed

\* lines 52-54: cursor - 1 with cursor = 0 overflows usize; the build
\* decides between a panic and wrapping to usize::MAX.
StepPrevious ==
    /\ Running
    /\ Ins = Previous
    /\ IF cursor = 0 /\ overflow_checks
       THEN /\ pc' = "panic"
            /\ UNCHANGED <<cursor, flow_offset>>
       ELSE /\ cursor' = cursor - 1
            /\ flow_offset' = flow_offset + 1
            /\ UNCHANGED pc
    /\ UNCHANGED <<parser_vars, instructions, overflow_checks, resolver_vars, buffer, wormholes_map, writer>>
    /\ underflowed' = (underflowed \/ cursor = 0)
    /\ UNCHANGED max_cursor

\* A slip: the first cell of the tape is incremented, wherever the cursor is.
StepIncrement_FirstCell ==
    /\ Running
    /\ Ins = Increment
    /\ buffer' = [buffer EXCEPT ![1] = overflowing_add(@)]
    /\ flow_offset' = flow_offset + 1
    /\ UNCHANGED <<parser_vars, instructions, overflow_checks, pc, resolver_vars, cursor, wormholes_map, writer>>
    /\ UNCHANGED history_vars

\* lines 55-60
StepIncrement ==
    /\ Running
    /\ Ins = Increment
    /\ buffer' = IF HasCell(buffer, cursor)
                 THEN [buffer EXCEPT ![cursor + 1] = overflowing_add(@)]
                 ELSE buffer
    /\ flow_offset' = flow_offset + 1
    /\ UNCHANGED <<parser_vars, instructions, overflow_checks, pc, resolver_vars, cursor, wormholes_map, writer>>
    /\ UNCHANGED history_vars

\* lines 75-80
StepDecrease ==
    /\ Running
    /\ Ins = Decrease
    /\ buffer' = IF HasCell(buffer, cursor)
                 THEN [buffer EXCEPT ![cursor + 1] = overflowing_sub(@)]
                 ELSE buffer
    /\ flow_offset' = flow_offset + 1
    /\ UNCHANGED <<parser_vars, instructions, overflow_checks, pc, resolver_vars, cursor, wormholes_map, writer>>
    /\ UNCHANGED history_vars

\* The test of line 63: the jump of a LoopStart is taken.
LoopStartJumps == HasCell(buffer, cursor) /\ Cell(buffer, cursor) = 0

\* A slip: the test of the LoopEnd is inverted.
LoopEndJumps_Inverted == HasCell(buffer, cursor) /\ Cell(buffer, cursor) = 0

\* The test of line 70: the jump of a LoopEnd is taken.
LoopEndJumps == HasCell(buffer, cursor) /\ Cell(buffer, cursor) /= 0

\* A slip: the jump lands on the partner marker itself.
AfterJump_OnPartner(m, k) == WormholeOrDefault(m, k)

\* flow_offset after a taken jump: line 64 (or 71), then line 87.
AfterJump(m, k) == WormholeOrDefault(m, k) + 1

\* lines 61-67
StepLoopStart ==
    /\ Running
    /\ Ins = LoopStart
    /\ flow_offset' = IF LoopStartJumps
                      THEN AfterJump(wormholes_map, flow_offset)
                      ELSE flow_offset + 1
    /\ UNCHANGED <<parser_vars, instructions, overflow_checks, pc, resolver_vars, buffer, cursor, wormholes_map, writer>>
    /\ UNCHANGED history_vars

\* A slip: a taken jump from LoopEnd lands on the matching LoopStart, which
\* then tests the cell again.
StepLoopEnd_OnLoopStart ==
    /\ Running
    /\ Ins = LoopEnd
    /\ flow_offset' = IF LoopEndJumps
                      THEN WormholeOrDefault(wormholes_map, flow_offset)
                      ELSE flow_offset + 1
    /\ UNCHANGED <<parser_vars, instructions, overflow_checks, pc, resolver_vars, buffer, cursor, wormholes_map, writer>>
    /\ UNCHANGED history_vars

\* lines 68-74
StepLoopEnd ==
    /\ Running
    /\ Ins = LoopEnd
    /\ flow_offset' = IF LoopEndJumps
                      THEN AfterJump(wormholes_map, flow_offset)
                      ELSE flow_offset + 1
    /\ UNCHANGED <<parser_vars, instructions, overflow_checks, pc, resolver_vars, buffer, cursor, wormholes_map, writer>>
    /\ UNCHANGED history_vars

\* A slip: the cell is widened to 16 bits before it is serialised.
to_be_bytes_Wide(b) == <<0, b>>

\* (*b).to_be_bytes(): the one byte of a u8.
to_be_bytes(b) == <<b>>

\* lines 81-85
StepPrint ==
    /\ Running
    /\ Ins = PrintIns
    /\ ~HasCell(buffer, cursor) \/ Len(writer) < MaxOut \/ Uncapped
    /\ writer' = IF HasCell(buffer, cursor)
                 THEN writer \o to_be_bytes(Cell(buffer, cursor))
                 ELSE writer
    /\ flow_offset' = flow_offset + 1
    /\ UNCHANGED <<parser_vars, instructions, overflow_checks, pc, resolver_vars, buffer, cursor, wormholes_map>>
    /\ UNCHANGED history_vars

\* instructions.get(flow_offset) gives None (line 44): Ok(()) (line 90).
Return ==
    /\ pc = "run"
    /\ ~HasIns
    /\ pc' = "done"
    /\ UNCHANGED <<parser_vars, instructions, overflow_checks, resolver_vars, engine_vars, wormholes_map>>
    /\ UNCHANGED history_vars

Step ==
    \/ StepNext
    \/ StepPrevious
    \/ StepIncrement
    \/ StepDecrease
    \/ StepLoopStart
    \/ StepLoopEnd
    \/ StepPrint

Scan ==
    \/ ScanLoopStart
    \/ ScanLoopEnd
    \/ ScanOther

NextState ==
    \/ Scan
    \/ ScanReturn
    \/ Step
    \/ Return

Spec == Init /\ [][NextState]_vars

---------------------------------------------------------------------------
(* Programs that enter a loop on a nonzero cell: Increment, LoopStart, a   *)
(* body that may hold loops of its own, LoopEnd.                           *)

\* Longest loop body.
MaxBody == 3

LoopBodies ==
    SeqsUpTo(Instruction, MaxBody)
        \cup SeqsUpTo({Increment, Decrease, LoopStart, LoopEnd}, MaxBody + 1)

LoopPrograms == {<<Increment, LoopStart>> \o b \o <<LoopEnd>> : b \in LoopBodies}

InitLoop ==
    /\ instructions \in LoopPrograms
    /\ InitLocals

\* The runs of the loop programs, under the fairness of FairSpec.
LoopSpec == InitLoop /\ [][NextState]_vars /\ WF_vars(NextState)

---------------------------------------------------------------------------
(* Runs that start from a text: main (lines 30-32) and the tests (lines    *)
(* 142-144) parse it, unwrap the result and call run_hand_ast.             *)

\* Longest text over all the chars.
MaxText == 3
\* Longest text over SparseChars.
MaxSparseText == 5

\* A char that is neither a symbol nor taken by multispace0: the letter x.
\* Chars that are no symbol and that multispace0 does not take: form feed,
\* which char::is_whitespace counts as whitespace, and the letter x.
OtherChars == {12, 120}

Chars == {InsTable[k][1] : k \in 1 .. Len(InsTable)} \cup Multispace \cup OtherChars

\* Two symbols, two kinds of whitespace and the other char, for longer texts.
SparseChars == {CharIncrement, CharPrint, 32, 10} \cup OtherChars

Texts == SeqsUpTo(Chars, MaxText) \cup SeqsUpTo(SparseChars, MaxSparseText)

InitText ==
    /\ InitEngine
    /\ pc = "parse"
    /\ instructions = <<>>
    /\ stack = <<>>

InitParse ==
    /\ code \in Texts
    /\ InitText

\* One round of the loop of many0(ins_alter) (line 132) in which ins_alter
\* succeeds: its value is gathered and the input moves past it.
many0 ==
    /\ pc = "parse"
    /\ ins_alter(code, input).ok
    /\ input' = ins_alter(code, input).next
    /\ acc' = Append(acc, ins_alter(code, input).value)
    /\ UNCHANGED <<code, instructions, overflow_checks, pc, resolver_vars, engine_vars,
                   wormholes_map, history_vars>>

\* The round in which ins_alter fails ends many0 with what it gathered;
\* terminated(.., pair(multispace0, eof)) (lines 132-133) then succeeds at
\* the end of the text and is an Err before it.  unwrap (lines 30, 142)
\* panics on the Err; on Ok run_hand_ast and calc_wormholes are entered
\* with the instructions.
parse_hand_code ==
    /\ pc = "parse"
    /\ ~ins_alter(code, input).ok
    /\ IF multispace0(code, input) = Len(code) + 1
       THEN /\ instructions' = acc
            /\ stack' = acc
            /\ pc' = "resolve"
       ELSE /\ pc' = "parse_panic"
            /\ UNCHANGED <<instructions, stack>>
    /\ UNCHANGED <<parser_vars, overflow_checks, offset, map, starts, engine_vars,
                   wormholes_map, history_vars>>

Parse == many0 \/ parse_hand_code

TextNext == Parse \/ NextState

ParseSpec == InitParse /\ [][TextNext]_vars

InitFixture ==
    /\ code \in FixtureCodes
    /\ InitText

\* The two test runs, under the fairness of FairSpec.
FixtureSpec == InitFixture /\ [][TextNext]_vars /\ WF_vars(TextNext)

\* The code is one synchronous thread: a step that can be taken is taken.
FairSpec == Spec /\ WF_vars(NextState)

---------------------------------------------------------------------------
(* Programs that exercise the cell arithmetic over a whole cycle: k        *)
(* Decreases bring the cell from 0 to any start value, a Print records it, *)
(* U8Modulus Increments follow, and a second Print records the result.     *)

\* Largest number of leading Decreases.
MaxWrapStart == 255

WrapProgram(k) ==
    [i \in 1 .. (k + U8Modulus + 2) |->
        IF i <= k THEN Decrease
        ELSE IF i = k + 1 \/ i = k + U8Modulus + 2 THEN PrintIns
        ELSE Increment]

WrapPrograms == {WrapProgram(k) : k \in 0 .. MaxWrapStart}

InitWrap ==
    /\ instructions \in WrapPrograms
    /\ InitLocals

\* The runs of Spec together with the runs of the cycle programs.
WrapSpec == (Init \/ InitWrap) /\ [][NextState]_vars

---------------------------------------------------------------------------
(* Vocabulary of the properties.                                           *)

Offsets(prog) == 0 .. (Len(prog) - 1)
At(prog, i) == prog[i + 1]
Min2(a, b) == IF a < b THEN a ELSE b
Max2(a, b) == IF a < b THEN b ELSE a
MaxOf(S) == CHOOSE x \in S : \A y \in S : y <= x

\* The number of offsets in a..b that hold tag.
CountTag(prog, tag, a, b) == Cardinality({i \in a..b : At(prog, i) = tag})

\* Offsets a..b of prog read as parentheses are balanced (a > b: empty).
BalancedSeg(prog, a, b) ==
    /\ \A j \in a..b : CountTag(prog, LoopStart, a, j) >= CountTag(prog, LoopEnd, a, j)
    /\ CountTag(prog, LoopStart, a, b) = CountTag(prog, LoopEnd, a, b)

Balanced(prog) == BalancedSeg(prog, 0, Len(prog) - 1)

\* The parenthesis matching of prog: s opens, e closes, and what lies
\* strictly between them is balanced.
RefPairs(prog) ==
    {p \in Offsets(prog) \X Offsets(prog) :
        /\ p[1] < p[2]
        /\ At(prog, p[1]) = LoopStart
        /\ At(prog, p[2]) = LoopEnd
        /\ BalancedSeg(prog, p[1] + 1, p[2] - 1)}

\* A table as the set of its entries.
Entries(m) == {<<k, m[k]>> : k \in DOMAIN m}

\* The pairs (start, end) a table records.
TablePairs(m) == {p \in Entries(m) : p[1] < p[2]}

\* The table is returned and bound in run_hand_ast.
Resolved == pc /= "resolve"

---------------------------------------------------------------------------
(* C1: for every program, balanced or not, the table calc_wormholes builds *)
(* and returns is symmetric and well-typed: when s maps to e, e maps back  *)
(* to s, both are offsets of the program, the smaller holds LoopStart and  *)
(* the larger LoopEnd; no offset holding another instruction has an entry. *)

SymmetricWellTyped(m, prog) ==
    /\ \A s \in DOMAIN m :
        /\ m[s] \in DOMAIN m
        /\ m[m[s]] = s
        /\ s \in Offsets(prog)
        /\ m[s] \in Offsets(prog)
        /\ m[s] /= s
        /\ At(prog, Min2(s, m[s])) = LoopStart
        /\ At(prog, Max2(s, m[s])) = LoopEnd
    /\ \A i \in Offsets(prog) :
        At(prog, i) \notin {LoopStart, LoopEnd} => i \notin DOMAIN m

C1_TableSymmetricWellTyped ==
    /\ SymmetricWellTyped(map, instructions)
    /\ SymmetricWellTyped(wormholes_map, instructions)

\* A returned table with two pairs, of a program that is not balanced.
C1_Witness ==
    /\ Resolved
    /\ Cardinality(DOMAIN wormholes_map) >= 4
    /\ ~Balanced(instructions)

---------------------------------------------------------------------------
(* C2: calc_wormholes pairs each LoopEnd with the nearest still-unmatched  *)
(* LoopStart to its left, as parenthesis matching does: the returned table *)
(* is the reference matching, its pairs never cross, and for a balanced    *)
(* program every LoopStart and LoopEnd offset has an entry.                *)

\* The LoopStart offsets left of the scan position that have no entry yet.
Unmatched == {i \in 0 .. (offset - 1) : At(instructions, i) = LoopStart /\ i \notin DOMAIN map}

\* A scan step at a LoopEnd links it to the nearest unmatched LoopStart, or
\* records nothing when there is none.
C2_NearestStep ==
    (pc = "resolve" /\ stack /= <<>> /\ Head(stack) = LoopEnd /\ offset' = offset + 1)
        => IF Unmatched = {}
           THEN map' = map
           ELSE /\ Entries(map') = Entries(map) \cup
                        {<<MaxOf(Unmatched), offset>>, <<offset, MaxOf(Unmatched)>>}

NonCrossing(m) ==
    \A p \in TablePairs(m), q \in TablePairs(m) :
        p[1] < q[1] => (p[2] < q[1] \/ q[2] < p[2])

C2_TableIsMatching ==
    Resolved =>
        /\ TablePairs(wormholes_map) = RefPairs(instructions)
        /\ Entries(wormholes_map) =
               RefPairs(instructions) \cup {<<p[2], p[1]>> : p \in RefPairs(instructions)}
        /\ NonCrossing(wormholes_map)
        /\ Balanced(instructions) =>
               \A i \in Offsets(instructions) :
                   At(instructions, i) \in {LoopStart, LoopEnd} => i \in DOMAIN wormholes_map

C2_ParenthesisMatching == [](C2_TableIsMatching) /\ [][C2_NearestStep]_vars

\* A returned table with a loop nested in another, next to a third loop.
C2_Witness ==
    /\ Resolved
    /\ \E p \in TablePairs(wormholes_map), q \in TablePairs(wormholes_map),
          r \in TablePairs(wormholes_map) :
          p[1] < q[1] /\ q[2] < p[2] /\ p[2] < r[1]

---------------------------------------------------------------------------
(* C3: a LoopStart at offset s run on a cell equal to 0 continues at       *)
(* JumpTable[s] + 1, just after the matching LoopEnd; a LoopEnd at offset  *)
(* e run on a nonzero cell continues at JumpTable[e] + 1, just after the   *)
(* matching LoopStart; in the opposite cases, and for every other          *)
(* instruction, flow_offset advances by exactly 1.  The property speaks of *)
(* steps that leave the run going and of offsets that have an entry: a     *)
(* step that panics has no next instruction, and a lookup miss is the      *)
(* subject of C7.                                                          *)

JumpTaken ==
    \/ Ins = LoopStart /\ LoopStartJumps
    \/ Ins = LoopEnd /\ LoopEndJumps

C3_JumpStep ==
    (Running /\ pc' = "run") =>
        IF JumpTaken
        THEN flow_offset \in DOMAIN wormholes_map =>
                /\ flow_offset' = wormholes_map[flow_offset] + 1
                /\ IF Ins = LoopStart
                   THEN <<flow_offset, wormholes_map[flow_offset]>> \in RefPairs(instructions)
                   ELSE <<wormholes_map[flow_offset], flow_offset>> \in RefPairs(instructions)
        ELSE flow_offset' = flow_offset + 1

C3_JumpLandsAfterPartner == [][C3_JumpStep]_vars

\* The program Decrease LoopStart Decrease LoopEnd has run to its end: the
\* LoopEnd jumped back 254 times and fell through once.
C3_Witness ==
    /\ pc = "done"
    /\ instructions = <<Decrease, LoopStart, Decrease, LoopEnd>>
    /\ buffer = <<0>>

---------------------------------------------------------------------------
(* C4: Previous run with cursor = 0 always ends the run with an underflow  *)
(* failure: the cursor is not changed and the run does not go on to the    *)
(* next instruction.  (Stated so that even the panic of a checked build    *)
(* counts as the failure.)                                                 *)

C4_UnderflowStep ==
    (Running /\ Ins = Previous /\ cursor = 0) =>
        /\ pc' \notin {"run", "done"}
        /\ cursor' = cursor
        /\ flow_offset' = flow_offset

C4_UnderflowFails == [][C4_UnderflowStep]_vars

---------------------------------------------------------------------------
(* C5: a program with a LoopEnd that has no pending LoopStart to its left  *)
(* is rejected at loop resolution: none of its instructions is executed    *)
(* and no byte is written.                                                 *)

HasUnmatchedEnd(prog) ==
    \E j \in Offsets(prog) :
        CountTag(prog, LoopEnd, 0, j) > CountTag(prog, LoopStart, 0, j)

\* No step of the execution loop is taken for such a program.
C5_NoStep == HasUnmatchedEnd(instructions) => (~Running /\ writer' = <<>>)

C5_UnmatchedEndRejected == [][C5_NoStep]_vars

---------------------------------------------------------------------------
(* C6: a program with a LoopStart still pending when the scan ends is      *)
(* reported as malformed; no jump table omitting that LoopStart is handed  *)
(* to the execution loop.                                                  *)

C6_ScanEndStep ==
    (pc = "resolve" /\ stack = <<>> /\ starts /= <<>>) => pc' /= "run"

C6_UnmatchedStartReported == [][C6_ScanEndStep]_vars

---------------------------------------------------------------------------
(* C7: a taken jump at an offset with no jump-table entry ends the run     *)
(* with a reported failure: flow_offset is not set from a default offset   *)
(* and the run does not go on.                                             *)

C7_MissStep ==
    (Running /\ JumpTaken /\ flow_offset \notin DOMAIN wormholes_map) =>
        /\ pc' \notin {"run", "done"}
        /\ flow_offset' = flow_offset

C7_MissReported == [][C7_MissStep]_vars

---------------------------------------------------------------------------
(* C8: cell arithmetic is modulo 256: Increment on 255 gives 0, Decrease   *)
(* on 0 gives 255, 256 consecutive Increments on any cell value return it  *)
(* to that value, and every tape cell is in 0..255 in every state.         *)

C8_CellsAreBytes == \A i \in 1 .. Len(buffer) : buffer[i] \in 0 .. 255

C8_ArithStep ==
    (Running /\ HasCell(buffer, cursor)) =>
        /\ Ins = Increment =>
              Cell(buffer', cursor) = IF Cell(buffer, cursor) = 255 THEN 0
                                      ELSE Cell(buffer, cursor) + 1
        /\ Ins = Decrease =>
              Cell(buffer', cursor) = IF Cell(buffer, cursor) = 0 THEN 255
                                      ELSE Cell(buffer, cursor) - 1

\* A cycle program has printed the cell before and after its 256 Increments.
C8_CycleReturns ==
    (pc = "done" /\ instructions \in WrapPrograms) =>
        /\ Len(writer) = 2
        /\ writer[1] = writer[2]
        /\ writer[1] = Cell(buffer, cursor)

C8_ArithmeticModulo256 ==
    /\ [](C8_CellsAreBytes /\ C8_CycleReturns)
    /\ [][C8_ArithStep]_vars

\* One Decrease on the zero cell gave 255, and the 256 Increments that
\* followed passed from 255 to 0 and came back to 255.
C8_Witness ==
    /\ pc = "done"
    /\ instructions = WrapProgram(1)
    /\ writer = <<255, 255>>

---------------------------------------------------------------------------
(* C9: the run stops exactly when flow_offset is outside the offsets of    *)
(* the program: the loop returns Ok there, returns in no other state, and  *)
(* nothing follows the return; so a loop-free program that never moves     *)
(* left from cursor 0 executes its instructions once each, in order, and   *)
(* then stops.  (A run ended by the panic of a checked build has failed,   *)
(* not stopped: that is the subject of C4.)                                *)

LoopFree(prog) == \A i \in Offsets(prog) : At(prog, i) \notin {LoopStart, LoopEnd}

\* No prefix of a loop-free program has more Previous than Next.
NoUnderflow(prog) ==
    \A j \in Offsets(prog) :
        CountTag(prog, Previous, 0, j) <= CountTag(prog, Next, 0, j)

Straight(prog) == LoopFree(prog) /\ NoUnderflow(prog)

InProgram == flow_offset \in Offsets(instructions)

C9_StopStep ==
    /\ pc /= "done"
    /\ pc' = "done" => (pc = "run" /\ ~InProgram /\ UNCHANGED <<engine_vars, instructions>>)
    /\ (pc = "run" /\ ~InProgram) => pc' = "done"
    /\ (pc = "run" /\ InProgram /\ Straight(instructions)) =>
           (pc' = "run" /\ flow_offset' = flow_offset + 1)

C9_StopState ==
    /\ pc = "done" => ~InProgram
    /\ (pc = "done" /\ Straight(instructions)) => flow_offset = Len(instructions)

C9_StopsExactlyOutside ==
    /\ [](C9_StopState)
    /\ [][C9_StopStep]_vars
    /\ ((pc = "run" /\ ~InProgram) \/ Straight(instructions)) ~> (pc = "done")

\* A loop-free program of full length has run to its end.
C9_Witness ==
    /\ pc = "done"
    /\ Straight(instructions)
    /\ Len(instructions) = MaxLen
    /\ flow_offset = MaxLen
    /\ cursor = 1

---------------------------------------------------------------------------
(* C10: for a loop-free program that never moves left from cursor 0, the   *)
(* final output has one byte per Print, the k-th byte comes from the k-th  *)
(* Print in program order, and it is the value of the cell under the       *)
(* cursor at the moment that Print was executed.                           *)

\* The number of Print instructions before offset i.
PrintsBefore(prog, i) == CountTag(prog, PrintIns, 0, i - 1)

C10_OutputState ==
    (Resolved /\ Straight(instructions)) =>
        /\ Len(writer) = PrintsBefore(instructions, flow_offset)
        /\ pc = "done" => Len(writer) = PrintsBefore(instructions, Len(instructions))

C10_OutputStep ==
    (Running /\ Straight(instructions)) =>
        IF Ins = PrintIns
        THEN /\ HasCell(buffer, cursor)
             /\ writer' = Append(writer, Cell(buffer, cursor))
        ELSE writer' = writer

C10_OutputFollowsPrints == [](C10_OutputState) /\ [][C10_OutputStep]_vars

\* Two Prints on different cells have written two different bytes.
C10_Witness ==
    /\ pc = "done"
    /\ Straight(instructions)
    /\ Len(writer) = 2
    /\ writer[1] /= writer[2]
    /\ cursor = 1

---------------------------------------------------------------------------
(* C11: in every run the output is append-only: a Print step appends       *)
(* exactly one byte, the cell under the cursor, every other instruction    *)
(* leaves the output unchanged, and the output of a state is a prefix of   *)
(* the output of every later state.                                        *)

IsPrefix(a, b) == Len(a) <= Len(b) /\ SubSeq(b, 1, Len(a)) = a

C11_Step ==
    /\ IsPrefix(writer, writer')
    /\ Running =>
          IF Ins = PrintIns
          THEN /\ HasCell(buffer, cursor)
               /\ writer' = Append(writer, Cell(buffer, cursor))
          ELSE writer' = writer

C11_OutputAppendOnly == [][C11_Step]_vars

---------------------------------------------------------------------------
(* C12: the tape starts as the single cell 0 and only grows at its right   *)
(* end: Next appends exactly one zero cell when the incremented cursor     *)
(* equals the tape length and appends nothing otherwise; no instruction    *)
(* removes a cell, inserts one at the left or appends more than one.       *)

C12_Step ==
    Running =>
        /\ Len(buffer') >= Len(buffer)
        /\ \A i \in 1 .. Len(buffer) : i /= cursor + 1 => buffer'[i] = buffer[i]
        /\ IF Ins = Next /\ cursor' = Len(buffer)
           THEN buffer' = Append(buffer, 0)
           ELSE Len(buffer') = Len(buffer)

C12_TapeGrowsAtCursor ==
    /\ [](pc \in {"parse", "resolve"} => buffer = <<0>>)
    /\ [][C12_Step]_vars

---------------------------------------------------------------------------
(* C13: when LoopStart at offset s is executed with a nonzero cell, the    *)
(* loop body (offsets s+1 up to the matching LoopEnd) is executed at least *)
(* once and the matching LoopEnd is then reached and tests the cell again; *)
(* if the cell is nonzero at every such test, the body is executed again   *)
(* each time and the run never leaves the loop.                            *)

CellNonzero == HasCell(buffer, cursor) /\ Cell(buffer, cursor) /= 0

\* The step StepNext or StepPrint would take is held back by a cap of the
\* model (the code would go on).
AtCap ==
    /\ Running
    /\ \/ Ins = Next /\ ~HasCell(buffer, cursor + 1) /\ Len(buffer) >= MaxTape /\ ~Uncapped
       \/ Ins = PrintIns /\ HasCell(buffer, cursor) /\ Len(writer) >= MaxOut /\ ~Uncapped

\* LoopStart at offset s, which has a matching LoopEnd, is about to be
\* executed on a nonzero cell.
EntersLoop(s) ==
    /\ Running
    /\ flow_offset = s
    /\ Ins = LoopStart
    /\ s \in DOMAIN wormholes_map
    /\ CellNonzero

\* The run is about to execute the LoopEnd matching the LoopStart at s.
AtLoopEndOf(s) ==
    /\ pc = "run"
    /\ s \in DOMAIN wormholes_map
    /\ flow_offset = wormholes_map[s]

\* The offsets at which a loop can start.
StartOffsets == 0 .. (MaxBody + 2)

\* C13, the steps of a loop with a matching LoopEnd: a nonzero LoopStart
\* enters the body, a nonzero LoopEnd continues just after its LoopStart, and
\* the run stays inside the loop until a test at its LoopEnd finds zero.
C13_LoopStep ==
    /\ (Running /\ Ins = LoopStart /\ flow_offset \in DOMAIN wormholes_map /\ CellNonzero) =>
           (pc' = "run" /\ flow_offset' = flow_offset + 1)
    /\ (Running /\ Ins = LoopEnd /\ flow_offset \in DOMAIN wormholes_map /\ CellNonzero) =>
           (pc' = "run" /\ flow_offset' = wormholes_map[flow_offset] + 1)
    /\ \A p \in TablePairs(wormholes_map) :
           (/\ pc = "run"
            /\ flow_offset \in (p[1] + 1) .. p[2]
            /\ (flow_offset = p[2] => CellNonzero))
               => flow_offset' \in (p[1] + 1) .. p[2]

\* A LoopEnd right after its LoopStart is about to jump back onto itself:
\* the run repeats this one step for ever.
Spins ==
    /\ Running
    /\ Ins = LoopEnd
    /\ LoopEndJumps
    /\ AfterJump(wormholes_map, flow_offset) = flow_offset

LoopFreeBody(s) ==
    \A i \in (s + 1) .. (wormholes_map[s] - 1) :
        At(instructions, i) \notin {LoopStart, LoopEnd}

\* The run is about to execute a LoopEnd that has a matching LoopStart.  (A
\* run that entered a loop with a loop-free body stays in s + 1 .. e until
\* the LoopEnd at e lets it out, by C13_LoopStep, and meets no other
\* LoopEnd there: the first one it is about to execute is the one at e.)
AtMatchedLoopEnd ==
    /\ Running
    /\ Ins = LoopEnd
    /\ flow_offset \in DOMAIN wormholes_map

Symbols == {InsTable[k][1] : k \in 1 .. Len(InsTable)}

\* The instruction a symbol stands for.
TagOf(c) == InsTable[CHOOSE k \in 1 .. Len(InsTable) : InsTable[k][1] = c][2]

IsSymbol(c) == c \in Symbols

\* The 1:1 image of the symbols of s, in order, everything else dropped.
SymbolImage(s) ==
    LET sel == SelectSeq(s, IsSymbol)
    IN  [i \in 1 .. Len(sel) |-> TagOf(sel[i])]

\* The chars below U+0080 that char::is_whitespace holds to be whitespace.
Whitespace == {9, 10, 11, 12, 13, 32}

OnlyOf(s, ws) == \A i \in 1 .. Len(s) : s[i] \in Symbols \cup ws

\* Nothing of the engine or the resolver has run.
Untouched ==
    /\ instructions = <<>>
    /\ stack = <<>>
    /\ offset = 0
    /\ wormholes_map = EmptyMap
    /\ buffer = <<0>>
    /\ cursor = 0
    /\ flow_offset = 0
    /\ writer = <<>>

\* With ws the chars that count as whitespace: the text is accepted iff it
\* holds only symbols and whitespace, the instructions are then the image
\* of its symbols, and a rejected text leaves nothing to run.
ParsedAs(ws) ==
    /\ pc = "parse" => Untouched
    /\ pc = "parse_panic" => ~OnlyOf(code, ws) /\ Untouched
    /\ pc \in {"resolve", "run", "done", "panic"} =>
           OnlyOf(code, ws) /\ instructions = SymbolImage(code)

\* C14 as claimed, whitespace being what the language calls whitespace:
\* accepted iff every char is a symbol or whitespace.
C14_AcceptsIffSymbolsOrWhitespace == ParsedAs(Whitespace)

\* C14, amended: accepted iff every char is a symbol or one of tab, line
\* feed, carriage return and space; the instructions are the image of the
\* symbols in order; a rejected text yields no instructions and no step.
C14_AcceptsIffSymbolsOrMultispace == ParsedAs(Multispace)

\* A text with leading, interior and trailing whitespace has been accepted
\* and run to its end.
C14_Witness ==
    /\ code = <<32, CharIncrement, 10, CharPrint, 32>>
    /\ instructions = <<Increment, PrintIns>>
    /\ pc = "done"
    /\ writer = <<1>>

\* ---------------------------------------------------------------------
\* C15: the two fixture programs, end to end.

\* The bytes of "Hello" (line 147) and of "Hello World!\n" (line 163).
ExpectedOutput ==
    IF code = HelloCode
    THEN <<72, 101, 108, 108, 111>>
    ELSE <<72, 101, 108, 108, 111, 32, 87, 111, 114, 108, 100, 33, 10>>

\* Decrease is about to be executed on a zero cell.
DecreasesZero == Running /\ Ins = Decrease /\ HasCell(buffer, cursor) /\ Cell(buffer, cursor) = 0

\* LoopStart is about to be executed on a zero cell: the loop is skipped.
SkipsLoop == Running /\ Ins = LoopStart /\ LoopStartJumps

\* The jump table holds a loop inside a loop.
HasNestedLoops ==
    \E p, q \in TablePairs(wormholes_map) : p[1] < q[1] /\ q[2] < p[2]

\* C15: each fixture run ends, without a panic, without cursor underflow
\* and without a jump that finds no entry, and its output at the end is the
\* expected text; each of the two decrements a zero cell (the first
\* instruction of test_hello does), and test_hello_world skips a loop on a
\* zero cell and has nested loops.
C15_FixturesPrintExpected ==
    /\ <>(pc = "done")
    /\ [](pc = "done" => writer = ExpectedOutput)
    /\ [](pc \notin {"panic", "parse_panic"} /\ ~underflowed)
    /\ []((Running /\ JumpTaken) => flow_offset \in DOMAIN wormholes_map)
    /\ []((pc = "run" /\ code = HelloCode /\ flow_offset = 0) => DecreasesZero)
    /\ <>DecreasesZero
    /\ <>(code = HelloWorldCode => SkipsLoop)
    /\ <>(code = HelloWorldCode => HasNestedLoops)

\* The run of test_hello_world has ended with its thirteen bytes written.
C15_Witness ==
    /\ code = HelloWorldCode
    /\ pc = "done"
    /\ Len(writer) = 13
    /\ Len(instructions) = Len(HelloWorldCode)

\* ---------------------------------------------------------------------
\* C16: a taken jump whose offset has no jump-table entry.

\* A taken jump is about to find no entry for its offset.
JumpMisses == Running /\ JumpTaken /\ flow_offset \notin DOMAIN wormholes_map

\* C16 as claimed: a taken jump that finds no entry transfers control to
\* offset 0, the next instruction executed being the program's first.
C16_MissStepToZero == JumpMisses => (pc' = "run" /\ flow_offset' = 0)

C16_MissRestartsAtZero == [][C16_MissStepToZero]_vars

\* C16, amended: a taken jump that finds no entry sets flow_offset to the
\* default 0 and the increment that ends every step makes it 1: the run
\* goes on at offset 1 (or ends there, in a program of one instruction)
\* with tape, cursor and output as they were; offset 0 is not executed.
C16_MissStep ==
    JumpMisses =>
        /\ pc' = "run"
        /\ flow_offset' = 1
        /\ UNCHANGED <<buffer, cursor, writer, instructions, wormholes_map>>

C16_MissContinuesAtOne == [][C16_MissStep]_vars

\* Increment Print LoopEnd: the unmatched LoopEnd has found the cell 1 and
\* no entry, and the Print at offset 1 has run a second time; the Increment
\* at offset 0 has not (the cell is still 1).
C16_Witness ==
    /\ pc = "run"
    /\ instructions = <<Increment, PrintIns, LoopEnd>>
    /\ flow_offset = 2
    /\ buffer = <<1>>
    /\ writer = <<1, 1>>

\* ---------------------------------------------------------------------
\* C17: which marker decides that a loop goes on.

\* A LoopEnd with a matching LoopStart is about to jump back.
JumpsBack ==
    /\ Running
    /\ Ins = LoopEnd
    /\ LoopEndJumps
    /\ flow_offset \in DOMAIN wormholes_map

\* C17 as claimed: after a taken backward jump from a LoopEnd the matching
\* LoopStart is the instruction executed next, and it tests the cell.
C17_BackStepToLoopStart ==
    JumpsBack => (pc' = "run" /\ flow_offset' = wormholes_map[flow_offset])

C17_LoopStartRechecks == [][C17_BackStepToLoopStart]_vars

\* C17, amended: the LoopEnd decides.  With s and e a matched pair: the
\* LoopEnd at e continues at s + 1 when the cell is nonzero and at e + 1
\* otherwise; the LoopStart at s continues at s + 1 when the cell is nonzero
\* (or there is no cell) and at e + 1 when it is zero; and no step from
\* inside the loop (from s + 1 .. e) leads to s: the LoopStart is executed
\* once per entry of the loop, not once per round.
C17_LoopStep ==
    \A p \in TablePairs(wormholes_map) :
        /\ (Running /\ flow_offset = p[2]) =>
               /\ pc' = "run"
               /\ flow_offset' = IF CellNonzero THEN p[1] + 1 ELSE p[2] + 1
        /\ (Running /\ flow_offset = p[1]) =>
               /\ pc' = "run"
               /\ flow_offset' = IF HasCell(buffer, cursor) /\ ~CellNonzero
                                 THEN p[2] + 1 ELSE p[1] + 1
        /\ (pc = "run" /\ flow_offset \in (p[1] + 1) .. p[2]) => flow_offset' /= p[1]

C17_LoopEndDecides == [][C17_LoopStep]_vars

\* Increment LoopStart Increment LoopEnd: the LoopEnd has found the cell 2
\* and jumped back, and the run is at offset 2, just after the LoopStart.
C17_Witness ==
    /\ pc = "run"
    /\ instructions = <<Increment, LoopStart, Increment, LoopEnd>>
    /\ flow_offset = 2
    /\ buffer = <<2>>

\* ---------------------------------------------------------------------
\* C18: what a step of run_hand_ast leaves alone.

\* Some cell the tape had before the step has another value after it.
CellChanged ==
    \E i \in 1 .. Len(buffer) : i <= Len(buffer') /\ buffer'[i] /= buffer[i]

\* C18: in a step of the engine the cursor changes only on Next and
\* Previous; a cell changes its value only on Increment and Decrease, and
\* then only the cell under the cursor, the tape keeping its length; the
\* tape changes its length only on Next and never loses a cell; LoopStart,
\* LoopEnd and Print leave tape and cursor as they are; and the
\* instructions and the jump table are the same in every state of the run.
C18_FrameStep ==
    /\ pc /= "parse" => instructions' = instructions
    /\ pc \notin {"parse", "resolve"} => wormholes_map' = wormholes_map
    /\ Running =>
           /\ cursor' /= cursor => Ins \in {Next, Previous}
           /\ CellChanged => Ins \in {Increment, Decrease}
           /\ Ins \in {Increment, Decrease} =>
                  /\ Len(buffer') = Len(buffer)
                  /\ \A i \in 1 .. Len(buffer) : i /= cursor + 1 => buffer'[i] = buffer[i]
           /\ Len(buffer') >= Len(buffer)
           /\ Len(buffer') /= Len(buffer) => Ins = Next
           /\ Ins \in {LoopStart, LoopEnd, PrintIns} => UNCHANGED <<buffer, cursor>>
    /\ ~Running => UNCHANGED <<buffer, cursor>>

C18_StepsChangeOnlyTheirOwn == [][C18_FrameStep]_vars

\* Next Increment Previous Print has run: the second cell was incremented
\* with the cursor on it, the first was not, and the cursor is back at 0.
C18_Witness ==
    /\ pc = "done"
    /\ instructions = <<Next, Increment, Previous, PrintIns>>
    /\ buffer = <<0, 1>>
    /\ cursor = 0
    /\ writer = <<0>>

\* ---------------------------------------------------------------------
\* C19: the cursor and the tape in runs without cursor underflow.

\* C19: as long as Previous has never been executed at cursor 0, the cursor
\* is an index of the tape and the tape is as long as 1 plus the largest
\* value the cursor has had; so Increment, Decrease, Print and the two loop
\* tests find their cell.
C19_CursorOnTape ==
    ~underflowed =>
        /\ 0 <= cursor
        /\ cursor < Len(buffer)
        /\ cursor <= max_cursor
        /\ Len(buffer) = 1 + max_cursor
        /\ (Running /\ Ins \in {Increment, Decrease, PrintIns, LoopStart, LoopEnd}) =>
               HasCell(buffer, cursor)

\* Next Next Previous Increment has run: the cursor went to 2 and is at 1,
\* the tape has three cells, and the Increment found the cell at 1.
C19_Witness ==
    /\ pc = "done"
    /\ instructions = <<Next, Next, Previous, Increment>>
    /\ ~underflowed
    /\ cursor = 1
    /\ max_cursor = 2
    /\ buffer = <<0, 1, 0>>

\* ---------------------------------------------------------------------
\* C20: the jumps of programs whose loop markers are balanced.

\* The runs of Spec together with the runs of the loop programs.
JumpSpec == (Init \/ InitLoop) /\ [][NextState]_vars

C20_JumpStep ==
    (Balanced(instructions) /\ Running /\ JumpTaken) =>
        /\ flow_offset \in DOMAIN wormholes_map
        /\ pc' = "run"
        /\ Ins = LoopStart => flow_offset' > flow_offset
        /\ Ins = LoopEnd => flow_offset' <= flow_offset

\* C20: in the run of a program whose loop markers are balanced (as
\* parentheses are), flow_offset is in 0 .. len in every state, every
\* taken jump finds its entry, a taken jump from LoopStart moves
\* flow_offset strictly forward and a taken jump from LoopEnd moves it to
\* an offset not greater than the LoopEnd's own.
C20_BalancedJumpsStayInside ==
    /\ [](Balanced(instructions) => flow_offset \in 0 .. Len(instructions))
    /\ [][C20_JumpStep]_vars

\* Increment LoopStart Decrease LoopStart LoopEnd LoopEnd has run: the
\* outer LoopStart fell through, the inner one jumped forward over its
\* loop on the zero cell, and the run is at its end.
C20_Witness ==
    /\ pc = "done"
    /\ instructions = <<Increment, LoopStart, Decrease, LoopStart, LoopEnd, LoopEnd>>
    /\ flow_offset = 6
    /\ buffer = <<0>>

===========================================================================
